---- MODULE Spec2Model ----
(***************************************************************************)
(* Model of src/status_monitor.py: OpenAIStatusMonitor, its two trackers   *)
(* (process_incidents, process_components), the fingerprint gate of        *)
(* check_for_updates and the polling loop of run.                          *)
(*                                                                         *)
(* Python values are modelled as follows.                                  *)
(*   None / Optional[x]  the empty tuple / the one-element tuple <<x>>     *)
(*   str                 a tuple of one-character strings (identifiers of  *)
(*                       incidents and components, endpoint names and      *)
(*                       dictionary keys stay TLA+ strings: the code only  *)
(*                       compares them)                                    *)
(*   dict                a function from keys to values; the summary       *)
(*                       document, whose key order matters to json.dumps,  *)
(*                       is a tuple of <<key, value>> pairs                *)
(*   list                a tuple                                           *)
(* StatusUpdate.timestamp (datetime.now()) is left out of the records: no  *)
(* decision of the program reads it.                                       *)
(***************************************************************************)
EXTENDS Integers, Sequences, FiniteSets, TLC

VARIABLES
    seen_incidents,         \* self.seen_incidents: Set[str]
    seen_component_states,  \* self.seen_component_states: Dict[str, str]
    last_content_hash,      \* self.last_content_hash: Optional[str]
    active_incidents,       \* self.active_incidents: bool
    pc,                     \* position of run() and of the cycle it is in: "check" (about to
                            \* fetch the summary), "incidents", "components", "print",
                            \* "sleep", "done" (break), "stopped" (KeyboardInterrupt)
    updates,                \* all_updates of check_for_updates, then updates of run(); the
                            \* list is dead once printed and the model drops it there
    printed,                \* run(): number of elements of updates already printed
    interval,               \* run(): the interval chosen after the last cycle (None before)
    duration_seconds,       \* run(): the argument (None = run indefinitely)
    elapsed,                \* time.time() - start_time, in seconds
    sink,                   \* records printed in the current iteration of run()
    requests,               \* log: endpoints requested by the current cycle, in order
    results,                \* log: per endpoint, how its fetch of that cycle ended: "none",
                            \* "failed", "ok"; the summary: "failed", "empty", "same", "changed"
    summaryContent,         \* history: key/value content of the summary last passed on
    inOrder,                \* history: every tracker call so far returned its records in the
                            \* order of the list it was given
    lastListActive,         \* history: Some(b) once an incident list was fetched; b tells whether
                            \* the most recent one holds an unresolved incident
    everListed,             \* history: identifiers that occurred in a processed incident list
    relisted,               \* history: identifiers that occurred in a later processed list too
    notifCount,             \* history: per incident identifier, records produced (saturates)
    delivered,              \* history: incident identifiers whose record reached the sink
    tracked,                \* history: the component mapping as section 4.4 of the spec gives it
    compTrace,              \* history: statuses of WatchedComponent handed to process_components
    compNotifs,             \* history: records produced for WatchedComponent (saturates)
    api,                    \* the status page: its stamp and what its endpoints hold
    changesLeft,            \* changes the status page may still make
    failBudget,             \* transport failures that may still happen
    call                    \* one call of a tracker on its own: the function, the fields it
                            \* starts from, its argument and, once it returned, its result

monitorVars == <<seen_incidents, seen_component_states, last_content_hash, active_incidents>>
loopVars == <<pc, updates, printed, interval, duration_seconds, elapsed, sink>>
logVars == <<requests, results>>
histVars == <<lastListActive, everListed, relisted, notifCount, delivered, tracked,
             summaryContent, inOrder>>
scenarioVars == <<compTrace, compNotifs>>
worldVars == <<api, changesLeft, failBudget>>
vars == <<monitorVars, loopVars, logVars, histVars, scenarioVars, worldVars, call>>

----------------------------------------------------------------------------
(* Python values *)

None == <<>>
Some(x) == <<x>>

\* dict.get(k, default)
Get(d, k, default) == IF k \in DOMAIN d THEN d[k] ELSE default
\* d[k] = v
Put(d, k, v) == [x \in (DOMAIN d) \cup {k} |-> IF x = k THEN v ELSE d[x]]
\* dict.pop(k, None), the value dropped
Pop(d, k) == [x \in (DOMAIN d) \ {k} |-> d[x]]
EmptyDict == [x \in {} |-> None]

Range(s) == {s[i] : i \in DOMAIN s}
Min(a, b) == IF a < b THEN a ELSE b

LowerCase == <<"a", "b", "c", "d", "e", "f", "g", "h", "i", "j", "k", "l", "m", "n", "o", "p", "q", "r", "s", "t", "u", "v", "w", "x", "y", "z">>
UpperCase == <<"A", "B", "C", "D", "E", "F", "G", "H", "I", "J", "K", "L", "M", "N", "O", "P", "Q", "R", "S", "T", "U", "V", "W", "X", "Y", "Z">>
LowerSet == {LowerCase[i] : i \in DOMAIN LowerCase}
UpperSet == {UpperCase[i] : i \in DOMAIN UpperCase}
UpperOf == [c \in LowerSet |-> UpperCase[CHOOSE i \in DOMAIN LowerCase : LowerCase[i] = c]]
LowerOf == [c \in UpperSet |-> LowerCase[CHOOSE i \in DOMAIN UpperCase : UpperCase[i] = c]]
IsAlpha(c) == c \in LowerSet \/ c \in UpperSet
ToUpper(c) == IF c \in LowerSet THEN UpperOf[c] ELSE c
ToLower(c) == IF c \in UpperSet THEN LowerOf[c] ELSE c

\* str.replace(old, new) for one-character old and new
str_replace(s, old, new) == [i \in 1..Len(s) |-> IF s[i] = old THEN new ELSE s[i]]
\* str.title(): a letter that follows a non-letter is upper-cased, every other letter lower-cased
str_title(s) ==
    [i \in 1..Len(s) |->
        IF i = 1 \/ ~IsAlpha(s[i - 1]) THEN ToUpper(s[i]) ELSE ToLower(s[i])]
\* a slice that cuts nothing
str_prefix_whole(s, n) == s

\* s[:n]
str_prefix(s, n) == SubSeq(s, 1, Min(n, Len(s)))

RECURSIVE str_join(_, _)
\* sep.join(parts)
str_join(sep, parts) ==
    IF parts = <<>> THEN <<>>
    ELSE IF Len(parts) = 1 THEN parts[1]
    ELSE parts[1] \o sep \o str_join(sep, Tail(parts))

----------------------------------------------------------------------------
(* String literals of the source and of the API's vocabulary *)

S_operational == <<"o", "p", "e", "r", "a", "t", "i", "o", "n", "a", "l">>
S_degraded_performance == <<"d", "e", "g", "r", "a", "d", "e", "d", "_", "p", "e", "r", "f", "o", "r", "m", "a", "n", "c", "e">>
S_major_outage == <<"m", "a", "j", "o", "r", "_", "o", "u", "t", "a", "g", "e">>
S_investigating == <<"i", "n", "v", "e", "s", "t", "i", "g", "a", "t", "i", "n", "g">>
S_resolved == <<"r", "e", "s", "o", "l", "v", "e", "d">>
S_postmortem == <<"p", "o", "s", "t", "m", "o", "r", "t", "e", "m">>
S_unknown == <<"u", "n", "k", "n", "o", "w", "n">>
S_Unknown == <<"U", "n", "k", "n", "o", "w", "n">>
S_UnknownService == <<"U", "n", "k", "n", "o", "w", "n", " ", "S", "e", "r", "v", "i", "c", "e">>
S_UnknownIncident == <<"U", "n", "k", "n", "o", "w", "n", " ", "I", "n", "c", "i", "d", "e", "n", "t">>
S_none == <<"n", "o", "n", "e">>
S_major == <<"m", "a", "j", "o", "r">>
S_minor == <<"m", "i", "n", "o", "r">>
S_NoDetails == <<"N", "o", " ", "d", "e", "t", "a", "i", "l", "s", " ", "a", "v", "a", "i", "l", "a", "b", "l", "e">>
S_ProductPrefix == <<"O", "p", "e", "n", "A", "I", " ", "A", "P", "I", " ", "-", " ">>
S_MultipleServices == <<"O", "p", "e", "n", "A", "I", " ", "A", "P", "I", " ", "-", " ", "M", "u", "l", "t", "i", "p", "l", "e", " ", "S", "e", "r", "v", "i", "c", "e", "s">>
S_CommaSpace == <<",", " ">>
S_ChangedTo == <<"S", "e", "r", "v", "i", "c", "e", " ", "s", "t", "a", "t", "u", "s", " ", "c", "h", "a", "n", "g", "e", "d", " ", "t", "o", ":", " ">>
S_Dash == <<" ", "-", " ">>
S_API == <<"A", "P", "I">>
S_Chat == <<"C", "h", "a", "t">>
S_X == <<"X">>
S_Y == <<"Y">>
S_ElevatedErrors == <<"E", "l", "e", "v", "a", "t", "e", "d", " ", "e", "r", "r", "o", "r", " ", "r", "a", "t", "e", "s">>

----------------------------------------------------------------------------
(* Class constants *)

NORMAL_INTERVAL == 60
INCIDENT_INTERVAL == 15
MESSAGE_LIMIT == 200

SUMMARY == "summary.json"
INCIDENTS == "incidents.json"
COMPONENTS == "components.json"
Endpoints == {SUMMARY, INCIDENTS, COMPONENTS}

----------------------------------------------------------------------------
(* Bounds and the API payloads drawn within them *)

MaxIncidents == 2     \* longest incident list a response carries
MaxComponents == 2    \* longest component list a response carries

IncidentIds == {"i1", "i2"}
ComponentIds == {"c1", "c2"}
IncidentStatuses == {S_investigating, S_resolved, S_postmortem}
ComponentStatuses == {S_operational, S_degraded_performance, S_major_outage}

\* i1 carries every field of the schema; i2 leaves the optional lists out, and the
\* impact follows the status, so that a later listing differs in status and impact.
ImpactOf(status) ==
    IF status = S_investigating THEN S_major
    ELSE IF status = S_resolved THEN S_minor ELSE S_none
IncidentOf(id, status) ==
    IF id = "i1"
    THEN [id |-> id, name |-> S_X, status |-> status, impact |-> ImpactOf(status),
          incident_updates |-> <<[body |-> S_ElevatedErrors]>>,
          components |-> <<[name |-> S_API]>>]
    ELSE [id |-> id, name |-> S_Y, status |-> status, impact |-> ImpactOf(status)]
NameOf(id) == IF id = "c1" THEN S_API ELSE S_Chat
ComponentOf(id, status) == [id |-> id, name |-> NameOf(id), status |-> status]

SeqsUpTo(S, n) == UNION {[1..k -> S] : k \in 0..n}
IncidentLists ==
    SeqsUpTo({IncidentOf(id, st) : id \in IncidentIds, st \in IncidentStatuses}, MaxIncidents)
ComponentLists ==
    SeqsUpTo({ComponentOf(id, st) : id \in ComponentIds, st \in ComponentStatuses}, MaxComponents)

\* The summary document: two keys, in either order; its content is the page stamp.
MaxChanges == 1       \* changes of the status page, hence stamps 0..MaxChanges
Stamps == 0..MaxChanges
SummaryOf(stamp, order) ==
    IF order = 1 THEN <<<<"page", stamp>>, <<"status", "ok">>>>
    ELSE <<<<"status", "ok">>, <<"page", stamp>>>>
SummaryDocs == {<<>>} \cup {SummaryOf(t, o) : t \in Stamps, o \in {1, 2}}

\* What _make_request may return per endpoint: None, or the parsed document.
SummaryResponses == {None} \cup {Some(d) : d \in SummaryDocs}
IncidentResponses == {None} \cup {Some([incidents |-> l]) : l \in IncidentLists}
ComponentResponses == {None} \cup {Some([components |-> l]) : l \in ComponentLists}

----------------------------------------------------------------------------
(* _hash_content: json.dumps(data, sort_keys=True), then sha256.  The digest *)
(* is modelled by the serialised text itself (sha256 taken as injective):   *)
(* the pairs of the document in ascending key order.                        *)

\* Python's order on the key strings of the summary document
KeyBefore(a, b) == a = "page" /\ b = "status"

RECURSIVE json_dumps_sorted(_)
json_dumps_sorted(data) ==
    IF data = <<>> THEN <<>>
    ELSE LET least == CHOOSE i \in DOMAIN data :
                          \A j \in DOMAIN data : j = i \/ KeyBefore(data[i][1], data[j][1])
             rest == [k \in 1..(Len(data) - 1) |-> IF k < least THEN data[k] ELSE data[k + 1]]
         IN <<data[least]>> \o json_dumps_sorted(rest)

_hash_content(data) == json_dumps_sorted(data)

----------------------------------------------------------------------------
(* Fetchers *)

\* Python truthiness of an Optional dict / list: neither None nor empty
Truthy(o) == o # None /\ DOMAIN o[1] # {}

\* fetch_summary: the response of _make_request("summary.json")
fetch_summary(response) == response
\* fetch_incidents: data.get("incidents", []) if data else None
fetch_incidents(response) ==
    IF Truthy(response) THEN Some(Get(response[1], "incidents", <<>>)) ELSE None
\* fetch_components: data.get("components", []) if data else None
fetch_components(response) ==
    IF Truthy(response) THEN Some(Get(response[1], "components", <<>>)) ELSE None

----------------------------------------------------------------------------
(* StatusUpdate and the two trackers *)

StatusUpdate(product, status, message, incident_id) ==
    [product |-> product, status |-> status, message |-> message, incident_id |-> incident_id]

\* process_components_body without the pop at line 78: a recovered component keeps its entry
process_components_body_keeps(acc, component) ==
    LET component_id == Get(component, "id", None)
        name == Get(component, "name", S_UnknownService)
        status == Get(component, "status", S_unknown)
        previous_status == Get(acc.seen_component_states, component_id, None)
    IN IF status = S_operational
       THEN acc
       ELSE IF previous_status # status
       THEN [seen_component_states |-> Put(acc.seen_component_states, component_id, status),
             updates |-> Append(acc.updates,
                 StatusUpdate(S_ProductPrefix \o name,
                              str_title(str_replace(status, "_", " ")),
                              S_ChangedTo \o str_replace(status, "_", " "),
                              None))]
       ELSE acc

\* process_components_body without the test at line 76: operational is tracked like
\* any other status
process_components_body_stores(acc, component) ==
    LET component_id == Get(component, "id", None)
        name == Get(component, "name", S_UnknownService)
        status == Get(component, "status", S_unknown)
        previous_status == Get(acc.seen_component_states, component_id, None)
    IN IF previous_status # status
       THEN [seen_component_states |-> Put(acc.seen_component_states, component_id, status),
             updates |-> Append(acc.updates,
                 StatusUpdate(S_ProductPrefix \o name,
                              str_title(str_replace(status, "_", " ")),
                              S_ChangedTo \o str_replace(status, "_", " "),
                              None))]
       ELSE acc

\* process_components_body without the comparison at line 83: every abnormal status
\* is recorded
process_components_body_repeats(acc, component) ==
    LET component_id == Get(component, "id", None)
        name == Get(component, "name", S_UnknownService)
        status == Get(component, "status", S_unknown)
    IN IF status = S_operational
       THEN [acc EXCEPT !.seen_component_states = Pop(@, component_id)]
       ELSE [seen_component_states |-> Put(acc.seen_component_states, component_id, status),
             updates |-> Append(acc.updates,
                 StatusUpdate(S_ProductPrefix \o name,
                              str_title(str_replace(status, "_", " ")),
                              S_ChangedTo \o str_replace(status, "_", " "),
                              None))]

\* One iteration of the loop of process_components.
\* acc = [seen_component_states, updates]
process_components_body(acc, component) ==
    LET component_id == Get(component, "id", None)
        name == Get(component, "name", S_UnknownService)
        status == Get(component, "status", S_unknown)
        previous_status == Get(acc.seen_component_states, component_id, None)
    IN IF status = S_operational
       THEN [acc EXCEPT !.seen_component_states = Pop(@, component_id)]
       ELSE IF previous_status # status
       THEN [seen_component_states |-> Put(acc.seen_component_states, component_id, status),
             updates |-> Append(acc.updates,
                 StatusUpdate(S_ProductPrefix \o name,
                              str_title(str_replace(status, "_", " ")),
                              S_ChangedTo \o str_replace(status, "_", " "),
                              None))]
       ELSE acc

RECURSIVE process_components_for(_, _)
process_components_for(acc, components) ==
    IF components = <<>> THEN acc
    ELSE process_components_for(process_components_body(acc, Head(components)), Tail(components))

\* process_components that builds the mapping anew from the payload
process_components_fresh(states, components) ==
    process_components_for([seen_component_states |-> EmptyDict, updates |-> <<>>], components)

\* process_components: the new mapping and the returned updates
process_components(states, components) ==
    process_components_for([seen_component_states |-> states, updates |-> <<>>], components)

\* One iteration of the loop of process_incidents.
\* acc = [seen_incidents, updates]
process_incidents_body(acc, incident) ==
    LET incident_id == Get(incident, "id", None)
        name == Get(incident, "name", S_UnknownIncident)
        status == Get(incident, "status", S_investigating)
        impact == Get(incident, "impact", S_none)
        incident_updates == Get(incident, "incident_updates", <<>>)
        latest_message ==
            IF incident_updates # <<>>
            THEN Get(incident_updates[1], "body", S_NoDetails)
            ELSE S_NoDetails
        affected_components == Get(incident, "components", <<>>)
        component_names ==
            [i \in 1..Len(affected_components) |-> Get(affected_components[i], "name", S_Unknown)]
        product ==
            IF component_names # <<>>
            THEN S_ProductPrefix \o str_join(S_CommaSpace, component_names)
            ELSE S_MultipleServices
    IN IF incident_id \in acc.seen_incidents
       THEN acc
       ELSE [seen_incidents |-> acc.seen_incidents \cup {incident_id},
             updates |-> Append(acc.updates,
                 StatusUpdate(product,
                              str_title(impact) \o S_Dash \o str_title(str_replace(status, "_", " ")),
                              str_prefix(latest_message, MESSAGE_LIMIT),
                              Some(incident_id)))]

RECURSIVE process_incidents_for(_, _)
process_incidents_for(acc, incidents) ==
    IF incidents = <<>> THEN acc
    ELSE process_incidents_for(process_incidents_body(acc, Head(incidents)), Tail(incidents))

\* process_incidents that forgets what it has seen: every call starts from the empty set
process_incidents_forgetful(seen, incidents) ==
    process_incidents_for([seen_incidents |-> {}, updates |-> <<>>], incidents)

\* process_incidents that keeps only the identifiers of the list it was given
process_incidents_prunes(seen, incidents) ==
    LET out == process_incidents_for([seen_incidents |-> seen, updates |-> <<>>], incidents)
    IN [out EXCEPT !.seen_incidents = {Get(incidents[i], "id", None) : i \in DOMAIN incidents}]

\* process_incidents: the new membership set and the returned updates
process_incidents(seen, incidents) ==
    process_incidents_for([seen_incidents |-> seen, updates |-> <<>>], incidents)

----------------------------------------------------------------------------
(* check_for_updates *)

\* i.get("status") not in ["resolved", "postmortem"]
IsUnresolved(incident) == Get(incident, "status", None) \notin {S_resolved, S_postmortem}

\* The monitor's fields as one value
Self ==
    [seen_incidents |-> seen_incidents, seen_component_states |-> seen_component_states,
     last_content_hash |-> last_content_hash, active_incidents |-> active_incidents]

\* check_incidents that takes a failed or empty fetch for "no incident"
check_incidents_clears(self, incidents) ==
    IF Truthy(incidents)
    THEN LET active == SelectSeq(incidents[1], IsUnresolved)
             out == process_incidents(self.seen_incidents, incidents[1])
         IN [self |-> [self EXCEPT !.active_incidents = Len(active) > 0,
                                   !.seen_incidents = out.seen_incidents],
             updates |-> out.updates]
    ELSE [self |-> [self EXCEPT !.active_incidents = FALSE], updates |-> <<>>]

\* The incidents block of check_for_updates (lines 161-169)
check_incidents(self, incidents) ==
    IF Truthy(incidents)
    THEN LET active == SelectSeq(incidents[1], IsUnresolved)
             out == process_incidents(self.seen_incidents, incidents[1])
         IN [self |-> [self EXCEPT !.active_incidents = Len(active) > 0,
                                   !.seen_incidents = out.seen_incidents],
             updates |-> out.updates]
    ELSE [self |-> self, updates |-> <<>>]

\* The components block of check_for_updates (lines 171-175)
check_components(self, components) ==
    IF Truthy(components)
    THEN LET out == process_components(self.seen_component_states, components[1])
         IN [self |-> [self EXCEPT !.seen_component_states = out.seen_component_states],
             updates |-> out.updates]
    ELSE [self |-> self, updates |-> <<>>]


\* check_summary that drops the stored fingerprint when the summary is missing
check_summary_resets(self, summary) ==
    IF ~Truthy(summary)
    THEN [self |-> [self EXCEPT !.last_content_hash = None], proceed |-> FALSE]
    ELSE LET current_hash == _hash_content(summary[1])
         IN IF Some(current_hash) = self.last_content_hash
            THEN [self |-> self, proceed |-> FALSE]
            ELSE [self |-> [self EXCEPT !.last_content_hash = Some(current_hash)],
                  proceed |-> TRUE]

\* check_summary without the early return at line 155
check_summary_ungated(self, summary) ==
    IF ~Truthy(summary)
    THEN [self |-> self, proceed |-> FALSE]
    ELSE [self |-> [self EXCEPT !.last_content_hash = Some(_hash_content(summary[1]))],
          proceed |-> TRUE]

\* check_summary without the assignment at line 157
check_summary_forgets(self, summary) ==
    IF ~Truthy(summary)
    THEN [self |-> self, proceed |-> FALSE]
    ELSE [self |-> self,
          proceed |-> Some(_hash_content(summary[1])) # self.last_content_hash]

\* The summary block of check_for_updates (lines 146-157): the monitor's fields
\* after it, and whether the call goes on to the detailed fetches.
check_summary(self, summary) ==
    IF ~Truthy(summary)
    THEN [self |-> self, proceed |-> FALSE]
    ELSE LET current_hash == _hash_content(summary[1])
         IN IF Some(current_hash) = self.last_content_hash
            THEN [self |-> self, proceed |-> FALSE]
            ELSE [self |-> [self EXCEPT !.last_content_hash = Some(current_hash)],
                  proceed |-> TRUE]

\* check_for_updates returning early when the incidents fetch failed
after_incidents_returns(incidents) == IF incidents = None THEN "print" ELSE "components"

\* Where check_for_updates goes after the incidents block: line 171, whatever
\* fetch_incidents returned.
after_incidents(incidents) == "components"


----------------------------------------------------------------------------
(* History variables: what they record of a call *)

Sat(n, cap) == Min(n, cap)
CountCap == 2         \* the counters of records stop at CountCap + 1
TraceCap == 5         \* the trace of the watched component keeps TraceCap statuses

\* "at least one incident's status is not in the terminal set" (spec 4.3)
HasActiveIncident(list) ==
    \E i \in DOMAIN list : list[i].status # S_resolved /\ list[i].status # S_postmortem

IdsOf(list) == {list[i].id : i \in DOMAIN list}

\* number of records of a list that carry the incident identifier id
RecordsFor(list, id) == Cardinality({i \in DOMAIN list : list[i].incident_id = Some(id)})

RECURSIVE IsSubsequence(_, _)
\* a is b with some elements left out
IsSubsequence(a, b) ==
    IF a = <<>> THEN TRUE
    ELSE IF b = <<>> THEN FALSE
    ELSE IF Head(a) = Head(b) THEN IsSubsequence(Tail(a), Tail(b))
    ELSE IsSubsequence(a, Tail(b))

\* the records of an incident list follow the list
IncidentsInOrder(records, list) ==
    IsSubsequence([i \in 1..Len(records) |-> records[i].incident_id],
                  [i \in 1..Len(list) |-> Some(list[i].id)])
\* the records of a component list follow the list
ComponentsInOrder(records, list) ==
    IsSubsequence([i \in 1..Len(records) |-> records[i].product],
                  [i \in 1..Len(list) |-> S_ProductPrefix \o list[i].name])

\* The component mapping after a payload, as the spec's section 4.4 gives it: the last
\* entry of an identifier decides; operational leaves no entry.
LastIndexOf(list, id) ==
    CHOOSE i \in DOMAIN list : list[i].id = id /\ \A j \in DOMAIN list : list[j].id = id => j <= i
TrackedAfter(m, list) ==
    LET ids == IdsOf(list)
        keep == {id \in DOMAIN m : id \notin ids}
        abnormal == {id \in ids : list[LastIndexOf(list, id)].status # S_operational}
    IN [id \in keep \cup abnormal |->
          IF id \in abnormal THEN list[LastIndexOf(list, id)].status ELSE m[id]]

\* How the summary of a cycle compares, by content, with the one last passed on
SummaryOutcome(r) ==
    IF r = None THEN "failed"
    ELSE IF r[1] = <<>> THEN "empty"
    ELSE IF Some(Range(r[1])) = summaryContent THEN "same" ELSE "changed"

\* the component followed for the operational/degraded/operational/degraded scenario
WatchedComponent == "c1"
StatusesOf(list, id) ==
    LET sel == SelectSeq(list, LAMBDA c : c.id = id)
    IN [i \in 1..Len(sel) |-> sel[i].status]
ComponentRecordsFor(list, id) ==
    Cardinality({i \in DOMAIN list :
        list[i].incident_id = None /\ list[i].product = S_ProductPrefix \o NameOf(id)})

----------------------------------------------------------------------------
(* The program: OpenAIStatusMonitor() and run() *)

MaxFailures == 1      \* transport failures in a run of the fair specification

\* OpenAIStatusMonitor(): the fields after __init__, and a loop that has not begun
Constructed ==
    /\ seen_incidents = {}
    /\ seen_component_states = EmptyDict
    /\ last_content_hash = None
    /\ active_incidents = FALSE
    /\ pc = "check"
    /\ updates = <<>>
    /\ printed = 0
    /\ interval = None
    /\ elapsed = 0
    /\ sink = <<>>
    /\ requests = <<>>
    /\ results = [e \in Endpoints |-> "none"]
    /\ summaryContent = None
    /\ inOrder = TRUE
    /\ lastListActive = None
    /\ everListed = {}
    /\ relisted = {}
    /\ notifCount = [id \in IncidentIds |-> 0]
    /\ delivered = {}
    /\ tracked = EmptyDict
    /\ compTrace = <<>>
    /\ compNotifs = 0
    /\ api = [stamp |-> 0, incidents |-> <<>>, components |-> <<>>]
    /\ changesLeft = MaxChanges
    /\ failBudget = MaxFailures

\* main(): monitor.run() without a duration
Init ==
    /\ Constructed
    /\ duration_seconds = None
    /\ call = None

\* check_for_updates, lines 144-157: fetch the summary and pass the fingerprint gate
FetchSummaryWith(r_summary) ==
    /\ pc = "check"
    /\ \E out \in {check_summary(Self, fetch_summary(r_summary))} :
         /\ last_content_hash' = out.self.last_content_hash
         /\ updates' = <<>>
         /\ printed' = 0
         /\ sink' = <<>>
         /\ pc' = IF out.proceed THEN "incidents" ELSE "print"
         /\ requests' = <<SUMMARY>>
         /\ results' = [e \in Endpoints |-> IF e = SUMMARY THEN SummaryOutcome(r_summary) ELSE "none"]
         /\ summaryContent' =
              IF SummaryOutcome(r_summary) = "changed" THEN Some(Range(r_summary[1]))
              ELSE summaryContent
         /\ UNCHANGED <<call, seen_incidents, seen_component_states, active_incidents,
                        interval, duration_seconds, elapsed, inOrder,
                        lastListActive, everListed, relisted, notifCount, delivered, tracked,
                        scenarioVars>>

\* check_for_updates, lines 161-169: fetch the incidents and process them
CheckIncidentsWith(r_incidents) ==
    LET incidents == fetch_incidents(r_incidents)
        listedNow == IF Truthy(incidents) THEN IdsOf(incidents[1]) ELSE {}
    IN /\ pc = "incidents"
       /\ \E out \in {check_incidents(Self, incidents)} :
            /\ seen_incidents' = out.self.seen_incidents
            /\ active_incidents' = out.self.active_incidents
            /\ updates' = updates \o out.updates
            /\ pc' = after_incidents(incidents)
            /\ requests' = Append(requests, INCIDENTS)
            /\ results' = [results EXCEPT ![INCIDENTS] = IF incidents = None THEN "failed" ELSE "ok"]
            /\ inOrder' = (inOrder /\ (incidents # None => IncidentsInOrder(out.updates, incidents[1])))
            /\ lastListActive' =
                 IF incidents = None THEN lastListActive ELSE Some(HasActiveIncident(incidents[1]))
            /\ everListed' = everListed \cup listedNow
            /\ relisted' = relisted \cup (listedNow \cap everListed)
            /\ notifCount' = [id \in IncidentIds |->
                                Sat(notifCount[id] + RecordsFor(out.updates, id), CountCap + 1)]
            /\ UNCHANGED <<call, seen_component_states, last_content_hash,
                           printed, interval, duration_seconds, elapsed, sink,
                           summaryContent, delivered, tracked, scenarioVars>>

\* check_for_updates, lines 171-177: fetch the components, process them, return
CheckComponentsWith(r_components) ==
    LET components == fetch_components(r_components)
    IN /\ pc = "components"
       /\ \E out \in {check_components(Self, components)} :
            /\ seen_component_states' = out.self.seen_component_states
            /\ updates' = updates \o out.updates
            /\ pc' = "print"
            /\ requests' = Append(requests, COMPONENTS)
            /\ results' = [results EXCEPT ![COMPONENTS] = IF components = None THEN "failed" ELSE "ok"]
            /\ inOrder' = (inOrder /\ (components # None => ComponentsInOrder(out.updates, components[1])))
            /\ tracked' = IF components = None THEN tracked ELSE TrackedAfter(tracked, components[1])
            /\ UNCHANGED <<call, seen_incidents, last_content_hash, active_incidents,
                           printed, interval, duration_seconds, elapsed, sink,
                           summaryContent, lastListActive, everListed, relisted, notifCount,
                           delivered, scenarioVars>>

\* print_update writing above what is already there
print_update_on_top(out, update) == <<update>> \o out

\* print_update: the record goes to the sink
print_update(out, update) == Append(out, update)

\* for update in updates: self.print_update(update)  -- one iteration
PrintUpdate ==
    /\ pc = "print"
    /\ printed < Len(updates)
    /\ sink' = print_update(sink, updates[printed + 1])
    /\ printed' = printed + 1
    /\ delivered' = delivered \cup Range(updates[printed + 1].incident_id)
    /\ UNCHANGED <<call, monitorVars, pc, updates, interval, duration_seconds, elapsed, logVars,
                   lastListActive, everListed, relisted, notifCount, tracked,
                   summaryContent, inOrder, scenarioVars, worldVars>>

\* the two cadences swapped
choose_interval_swapped(active) == IF active THEN NORMAL_INTERVAL ELSE INCIDENT_INTERVAL

\* interval = INCIDENT_INTERVAL if self.active_incidents else NORMAL_INTERVAL
choose_interval(active) == IF active THEN INCIDENT_INTERVAL ELSE NORMAL_INTERVAL

\* duration_seconds and (time.time() - start_time) >= duration_seconds
should_stop(duration, now) == duration # None /\ duration[1] # 0 /\ now >= duration[1]

\* After the last print: choose the interval, then break or go to sleep
ChooseInterval ==
    /\ pc = "print"
    /\ printed = Len(updates)
    /\ interval' = Some(choose_interval(active_incidents))
    /\ pc' = IF should_stop(duration_seconds, elapsed) THEN "done" ELSE "sleep"
    /\ updates' = <<>>
    /\ printed' = 0
    /\ sink' = <<>>
    /\ UNCHANGED <<call, monitorVars, duration_seconds, elapsed,
                   logVars, histVars, scenarioVars, worldVars>>

\* time.sleep(interval).  The clock is read only when a duration was given.
Sleep ==
    /\ pc = "sleep"
    /\ pc' = "check"
    /\ elapsed' = IF duration_seconds = None THEN elapsed
                  ELSE Min(elapsed + interval[1], duration_seconds[1])
    /\ UNCHANGED <<call, monitorVars, updates, printed, interval, duration_seconds, sink,
                   logVars, histVars, scenarioVars, worldVars>>

\* the except clauses of run() swallowing every exception
on_exception_swallows(exc) == "stopped"

\* The except clauses of run() (lines 222-226): where the loop ends for an exception
\* raised inside the try block.  "stopped": run returns; "raised": it is re-raised.
on_exception(exc) == IF exc = "KeyboardInterrupt" THEN "stopped" ELSE "raised"

\* except KeyboardInterrupt: the user stops the monitor
KeyboardInterrupt ==
    /\ pc \in {"check", "incidents", "components", "print", "sleep"}
    /\ pc' = on_exception("KeyboardInterrupt")
    /\ UNCHANGED <<call, monitorVars, updates, printed, interval, duration_seconds, elapsed, sink,
                   logVars, histVars, scenarioVars, worldVars>>

----------------------------------------------------------------------------
(* Spec: the monitor against any sequence of responses *)

FetchSummary ==
    \E r \in SummaryResponses : FetchSummaryWith(r) /\ UNCHANGED worldVars
CheckIncidents ==
    \E r \in IncidentResponses : CheckIncidentsWith(r) /\ UNCHANGED worldVars
CheckComponents ==
    \E r \in ComponentResponses : CheckComponentsWith(r) /\ UNCHANGED worldVars

Next ==
    \/ FetchSummary
    \/ CheckIncidents
    \/ CheckComponents
    \/ PrintUpdate
    \/ ChooseInterval
    \/ Sleep
    \/ KeyboardInterrupt

Spec == Init /\ [][Next]_vars

----------------------------------------------------------------------------
(* TrackerSpec: process_components called on one monitor with any payloads; *)
(* the history variables record what each call returned                   *)

CallProcessComponents ==
    \E payload \in ComponentLists :
        \E out \in {process_components(seen_component_states, payload)} :
           /\ seen_component_states' = out.seen_component_states
           /\ tracked' = TrackedAfter(tracked, payload)
           /\ inOrder' = (inOrder /\ ComponentsInOrder(out.updates, payload))
           /\ compTrace' = str_prefix(compTrace \o StatusesOf(payload, WatchedComponent), TraceCap)
           /\ compNotifs' = Sat(compNotifs + ComponentRecordsFor(out.updates, WatchedComponent),
                                CountCap + 1)
           /\ UNCHANGED <<call, seen_incidents, last_content_hash, active_incidents,
                          loopVars, logVars,
                          lastListActive, everListed, relisted, notifCount, delivered,
                          summaryContent, worldVars>>

TrackerNext == CallProcessComponents

TrackerSpec == Init /\ [][TrackerNext]_vars

----------------------------------------------------------------------------
(* FairSpec: the monitor polling a status page.  The page changes at most   *)
(* MaxChanges times, every change gives the summary a new stamp, at most    *)
(* MaxFailures fetches fail, and the loop keeps running unless interrupted. *)

FairIncidentLists ==
    SeqsUpTo({IncidentOf("i1", S_investigating), IncidentOf("i1", S_resolved)}, 1)
FairComponentLists ==
    SeqsUpTo({ComponentOf("c1", S_operational), ComponentOf("c1", S_degraded_performance)}, 1)

\* the status page changes what its endpoints hold
ApiChange ==
    /\ changesLeft > 0
    /\ \E il \in FairIncidentLists, cl \in FairComponentLists :
         /\ <<il, cl>> # <<api.incidents, api.components>>
         /\ api' = [stamp |-> api.stamp + 1, incidents |-> il, components |-> cl]
    /\ changesLeft' = changesLeft - 1
    /\ UNCHANGED <<call, monitorVars, loopVars, logVars, histVars, scenarioVars, failBudget>>

\* a fetch returns the document of the page, or fails while failures are left
Answers(docs) == {Some(d) : d \in docs} \cup (IF failBudget > 0 THEN {None} ELSE {})
Spend(r) ==
    /\ failBudget' = IF r = None THEN failBudget - 1 ELSE failBudget
    /\ UNCHANGED <<api, changesLeft>>

FairFetchSummary ==
    \E r \in Answers({SummaryOf(api.stamp, o) : o \in {1, 2}}) : FetchSummaryWith(r) /\ Spend(r)
FairCheckIncidents ==
    \E r \in Answers({[incidents |-> api.incidents]}) : CheckIncidentsWith(r) /\ Spend(r)
FairCheckComponents ==
    \E r \in Answers({[components |-> api.components]}) : CheckComponentsWith(r) /\ Spend(r)

FairNext ==
    \/ FairFetchSummary
    \/ FairCheckIncidents
    \/ FairCheckComponents
    \/ PrintUpdate
    \/ ChooseInterval
    \/ Sleep
    \/ KeyboardInterrupt
    \/ ApiChange

FairSpec ==
    /\ Init
    /\ [][FairNext]_vars
    /\ WF_vars(FairFetchSummary)
    /\ WF_vars(FairCheckIncidents)
    /\ WF_vars(FairCheckComponents)
    /\ WF_vars(PrintUpdate)
    /\ WF_vars(ChooseInterval)
    /\ WF_vars(Sleep)

----------------------------------------------------------------------------
(* RunSpec: run(duration_seconds) for an absent or a given duration, polling *)
(* the status page of FairSpec; a cycle may raise an exception that is no   *)
(* requests.RequestException, which _make_request does not catch.           *)

\* run(duration_seconds): None, 0, and durations around the two intervals
Durations == {0, INCIDENT_INTERVAL, NORMAL_INTERVAL, NORMAL_INTERVAL + INCIDENT_INTERVAL}

RunInit ==
    /\ Constructed
    /\ duration_seconds \in {None} \cup {Some(d) : d \in Durations}
    /\ call = None

\* An exception other than KeyboardInterrupt escapes check_for_updates or print_update
UnexpectedFault ==
    /\ pc \in {"check", "incidents", "components", "print"}
    /\ pc' = on_exception("Exception")
    /\ UNCHANGED <<call, monitorVars, updates, printed, interval, duration_seconds, elapsed,
                   sink, logVars, histVars, scenarioVars, worldVars>>

RunNext ==
    \/ FairFetchSummary
    \/ FairCheckIncidents
    \/ FairCheckComponents
    \/ PrintUpdate
    \/ ChooseInterval
    \/ Sleep
    \/ KeyboardInterrupt
    \/ UnexpectedFault
    \/ ApiChange

RunSpec ==
    /\ RunInit
    /\ [][RunNext]_vars
    /\ WF_vars(FairFetchSummary)
    /\ WF_vars(FairCheckIncidents)
    /\ WF_vars(FairCheckComponents)
    /\ WF_vars(PrintUpdate)
    /\ WF_vars(ChooseInterval)
    /\ WF_vars(Sleep)

----------------------------------------------------------------------------
(* CallSpec: one call of a tracker, for every argument within the bounds and *)
(* every value of the field it works on that the monitor can hold.          *)

MaxBody == 300        \* longest body of an incident update
BodyLengths == {0, 1, MESSAGE_LIMIT - 1, MESSAGE_LIMIT, MESSAGE_LIMIT + 1, MaxBody}
\* a body of n characters, no two neighbours alike
BodyOf(n) == [i \in 1..n |-> LowerCase[(i % 26) + 1]]

\* an incident whose first update entry has a body of n characters; a second, older
\* entry follows it
IncidentWithBody(id, n) ==
    [id |-> id, name |-> S_X, status |-> S_investigating, impact |-> S_major,
     incident_updates |-> <<[body |-> BodyOf(n)], [body |-> S_ElevatedErrors]>>]
\* an incident whose first update entry has no body
IncidentWithoutBody(id) ==
    [id |-> id, name |-> S_Y, status |-> S_investigating, impact |-> S_minor,
     incident_updates |-> <<[status |-> S_investigating]>>]
CallIncidentLists ==
    SeqsUpTo({IncidentWithBody(id, n) : id \in IncidentIds, n \in BodyLengths}
             \cup {IncidentWithoutBody("i2"), IncidentOf("i2", S_investigating)},
             MaxIncidents)

\* the values seen_component_states can have: no entry is operational
ComponentMappings ==
    UNION {[ids -> ComponentStatuses \ {S_operational}] : ids \in SUBSET ComponentIds}

Calls ==
    {[fn |-> "process_components", before |-> m, arg |-> p, out |-> None] :
        m \in ComponentMappings, p \in ComponentLists}
    \cup {[fn |-> "process_incidents", before |-> seen, arg |-> l, out |-> None] :
        seen \in SUBSET IncidentIds, l \in CallIncidentLists}

CallInit ==
    /\ Constructed
    /\ duration_seconds = None
    /\ call \in {Some(c) : c \in Calls}

Untouched ==
    UNCHANGED <<monitorVars, loopVars, logVars, histVars, scenarioVars, worldVars>>

\* self.process_components(components) returns
ReturnFromProcessComponents ==
    /\ call # None
    /\ call[1].fn = "process_components"
    /\ call[1].out = None
    /\ call' = Some([call[1] EXCEPT !.out = Some(process_components(call[1].before, call[1].arg))])
    /\ Untouched

\* self.process_incidents(incidents) returns
ReturnFromProcessIncidents ==
    /\ call # None
    /\ call[1].fn = "process_incidents"
    /\ call[1].out = None
    /\ call' = Some([call[1] EXCEPT !.out = Some(process_incidents(call[1].before, call[1].arg))])
    /\ Untouched

CallNext ==
    \/ ReturnFromProcessComponents
    \/ ReturnFromProcessIncidents

CallSpec == CallInit /\ [][CallNext]_vars

----------------------------------------------------------------------------
(* Properties *)

AbnormalStatuses == ComponentStatuses \ {S_operational}
IsIncidentRecord(u) == u.incident_id # None
InCycle == pc \in {"incidents", "components"}

\* C1 (Spec): fire once.  Every incident identifier that occurred in a processed
\* incident list has produced exactly one record, from its first listing on, and an
\* identifier that never occurred has produced none; listing it again, with whatever
\* status or impact, adds nothing.
C1_FireOnce ==
    \A id \in IncidentIds : notifCount[id] = (IF id \in everListed THEN 1 ELSE 0)
\* an identifier was listed again by a later list and still counts one record
C1_Witness ==
    \E id \in relisted : notifCount[id] = 1 /\ id \in seen_incidents

\* C2 (TrackerSpec): when the statuses of one component handed to process_components
\* are operational, abnormal, operational, abnormal, two records have been produced for
\* it: the first at the first abnormal status, none at the recovery, the second at the
\* second abnormal status.
C2_RecoveryScenario ==
    \A a, b \in AbnormalStatuses :
        /\ compTrace = <<S_operational>> => compNotifs = 0
        /\ compTrace = <<S_operational, a>> => compNotifs = 1
        /\ compTrace = <<S_operational, a, S_operational>> => compNotifs = 1
        /\ compTrace = <<S_operational, a, S_operational, b>> => compNotifs = 2
\* the scenario of the claim has run to its end
C2_Witness ==
    /\ compTrace = <<S_operational, S_degraded_performance,
                     S_operational, S_degraded_performance>>
    /\ compNotifs = 2

\* C3 (Spec): the active-incident flag is true exactly when the most recently fetched
\* incident list, an empty one included, holds an incident that is neither resolved nor
\* in postmortem.
C3_FlagFollowsLastList ==
    lastListActive # None => active_incidents = lastListActive[1]

\* C4 (Spec): the interval chosen after a cycle is INCIDENT_INTERVAL when the flag is
\* true and NORMAL_INTERVAL otherwise, no other value is ever chosen, and the flag is
\* false as long as no incident list was fetched.
C4_Cadence ==
    /\ interval # None => interval[1] \in {INCIDENT_INTERVAL, NORMAL_INTERVAL}
    /\ pc \in {"sleep", "done"} =>
          interval = Some(IF active_incidents THEN INCIDENT_INTERVAL ELSE NORMAL_INTERVAL)
    /\ lastListActive = None => ~active_incidents
\* the loop sleeps at the incident cadence
C4_Witness ==
    pc = "sleep" /\ active_incidents /\ interval = Some(INCIDENT_INTERVAL)

\* C5 (FairSpec): an incident that appears in the page's incident list and stays there
\* is eventually delivered to the sink, as long as the loop keeps running.
C5_ListedIsDelivered ==
    \A id \in IncidentIds :
        (<>[](id \in IdsOf(api.incidents)) /\ []<>(pc = "check")) => <>(id \in delivered)

\* C6 (Spec): no endpoint is requested twice in a cycle, and an endpoint whose fetch
\* failed in a cycle is requested again in the next one.
C6_RetryNextCycle ==
    /\ [](\A i, j \in DOMAIN requests : requests[i] = requests[j] => i = j)
    /\ [][(pc = "check" /\ pc' = "print") =>
             \A e \in Endpoints : results[e] = "failed" => e \in Range(requests')]_vars
    /\ [](pc = "print" /\ Len(requests) > 1 => Range(requests) = Endpoints)

\* C7 (Spec): a cycle whose summary fetch fails asks for nothing else, produces no
\* record and leaves the stored fingerprint as it was; and when the summary of the
\* cycle after it differs from the one last passed on, that cycle goes on to the
\* detailed fetches.
C7_SummaryFailure ==
    /\ [][(pc = "check" /\ pc' \in {"print", "incidents"}) =>
            /\ results'[SUMMARY] = "failed" =>
                  /\ pc' = "print"
                  /\ last_content_hash' = last_content_hash
                  /\ updates' = <<>>
                  /\ requests' = <<SUMMARY>>
            /\ results[SUMMARY] = "failed" /\ results'[SUMMARY] = "changed" =>
                  pc' = "incidents"]_vars
    /\ [](results[SUMMARY] = "failed" =>
            ~InCycle /\ updates = <<>> /\ sink = <<>> /\ requests = <<SUMMARY>>)
    /\ [](pc = "print" /\ results[SUMMARY] = "changed" => Range(requests) = Endpoints)
\* the summary fetch failed while a fingerprint was stored
C7_Witness ==
    pc = "print" /\ results[SUMMARY] = "failed" /\ last_content_hash # None

\* C8 (Spec): a cycle whose summary has the content, hence the fingerprint, of the one
\* last passed on produces no record and asks for neither incidents nor components.
C8_UnchangedSummary ==
    results[SUMMARY] = "same" =>
        ~InCycle /\ updates = <<>> /\ sink = <<>> /\ requests = <<SUMMARY>>
\* a cycle ended at the gate
C8_Witness ==
    pc = "print" /\ results[SUMMARY] = "same" /\ last_content_hash # None

\* C9 (Spec): a cycle that passes the gate goes from the incidents block to the
\* components fetch whatever the incidents fetch returned, and a fetched component
\* list is always processed: the mapping is what the payloads fetched so far make it.
C9_ComponentsIndependent ==
    /\ [][(pc = "incidents" /\ pc' \notin {"incidents", "stopped"}) => pc' = "components"]_vars
    /\ [](pc = "print" /\ results[SUMMARY] = "changed" => results[COMPONENTS] # "none")
    /\ [](seen_component_states = tracked)
\* components were processed in a cycle whose incidents fetch failed
C9_Witness ==
    /\ pc = "print"
    /\ results[INCIDENTS] = "failed"
    /\ results[COMPONENTS] = "ok"
    /\ \E i \in DOMAIN updates : ~IsIncidentRecord(updates[i])

\* C10 (Spec): the sink receives the records of a cycle one by one in the order of the
\* returned list, all of them before the loop goes to sleep; in that list the incident
\* records come first, then the component records, each group in the order of the list
\* it was made from.
C10_DeliveryOrder ==
    /\ [](pc = "print" => sink = SubSeq(updates, 1, printed))
    /\ [][(pc = "print" /\ pc' \in {"sleep", "done"}) => sink = updates]_vars
    /\ [](\A i, j \in DOMAIN updates :
            i < j => ~(~IsIncidentRecord(updates[i]) /\ IsIncidentRecord(updates[j])))
    /\ []inOrder
\* two incident records and a component record have all been printed
C10_Witness ==
    /\ pc = "print"
    /\ printed = Len(updates)
    /\ Len(sink) >= 3
    /\ IsIncidentRecord(sink[1]) /\ IsIncidentRecord(sink[2])
    /\ ~IsIncidentRecord(sink[Len(sink)])

\* C11 (TrackerSpec): no identifier of the component mapping has the value operational,
\* and every identifier in the mapping is one whose status, in the payload that listed
\* it last, was abnormal: the mapping holds that status.
C11_NoOperationalTracked ==
    \A id \in DOMAIN seen_component_states :
        /\ seen_component_states[id] # S_operational
        /\ id \in DOMAIN tracked
        /\ seen_component_states[id] = tracked[id]
        /\ tracked[id] \in AbnormalStatuses
\* the watched component was abnormal and has recovered, the other one is tracked
C11_Witness ==
    /\ Len(compTrace) >= 2
    /\ compTrace[Len(compTrace) - 1] \in AbnormalStatuses
    /\ compTrace[Len(compTrace)] = S_operational
    /\ DOMAIN seen_component_states = ComponentIds \ {WatchedComponent}

\* C12 (Spec): the set of reported incident identifiers only grows.  Every step of the
\* monitor leaves it a superset of what it was, and every identifier that was ever
\* listed is in it.
C12_SeenOnlyGrows ==
    /\ [][seen_incidents \subseteq seen_incidents']_vars
    /\ [](seen_incidents = everListed)
\* an identifier is kept while a later list, which no longer holds it, brought another
C12_Witness ==
    /\ pc = "components"
    /\ seen_incidents = IncidentIds
    /\ Len(updates) = 1
    /\ relisted = {}

Exited == pc \in {"done", "stopped", "raised"}

\* C13 (RunSpec): when run is given a duration, whatever its value, 0 included, run
\* eventually returns without a cancellation being needed: every fair behaviour of the
\* loop reaches its end.
C13_DurationEndsRun ==
    duration_seconds # None => <>Exited

\* C14 (RunSpec): no check cycle is started at a tick at whose top the stop condition
\* already holds.  Once a positive run duration has elapsed the summary is not fetched
\* any more, and after a cancellation nothing is.
C14_NoCycleAfterStop ==
    /\ [][(pc = "check" /\ pc' \in {"incidents", "print"}) =>
             ~(duration_seconds # None /\ duration_seconds[1] > 0
               /\ elapsed >= duration_seconds[1])]_vars
    /\ [][pc = "stopped" => pc' = "stopped"]_vars

\* C15 (RunSpec): the loop is left abnormally in two ways only.  A cancellation makes run
\* return ("stopped"), any other exception raised in a cycle is raised again to the
\* caller ("raised"), and neither outcome is ever left; a fetch that fails for transport
\* reasons is neither: its cycle goes on or ends without a record, and the loop
\* continues to the interval choice.
C15_TwoAbnormalExits ==
    /\ [][KeyboardInterrupt => pc' = "stopped"]_vars
    /\ [][UnexpectedFault => pc' = "raised"]_vars
    /\ [][(pc' \in {"stopped", "raised"} /\ pc' # pc) => (KeyboardInterrupt \/ UnexpectedFault)]_vars
    /\ [][Exited => pc' = pc]_vars
    /\ [][(requests' # requests /\ results'[requests'[Len(requests')]] = "failed") =>
             pc' \in {"incidents", "components", "print"}]_vars
    /\ []((pc = "print" /\ \E e \in Endpoints : results[e] = "failed") =>
             <>(pc \in {"sleep", "done", "stopped", "raised"}))
\* a fetch failed in an earlier cycle, the loop went on, and a later cycle raised
C15_Witness ==
    /\ pc = "raised"
    /\ failBudget < MaxFailures
    /\ requests # <<>>
    /\ \A e \in Endpoints : results[e] # "failed"

Returned(fn) == call # None /\ call[1].fn = fn /\ call[1].out # None

\* the incident of a list that a record was made from: the first one with its identifier
SourceOf(list, u) == list[CHOOSE i \in DOMAIN list :
                             /\ Some(list[i].id) = u.incident_id
                             /\ \A j \in DOMAIN list : Some(list[j].id) = u.incident_id => i <= j]
HasBody(incident) ==
    /\ "incident_updates" \in DOMAIN incident
    /\ incident.incident_updates # <<>>
    /\ "body" \in DOMAIN incident.incident_updates[1]

\* C16 (CallSpec): the message of an incident record is the first MESSAGE_LIMIT (200)
\* characters of the body of the incident's first update entry, the whole body when it
\* is no longer than that; no message is longer than 200 characters.
C16_MessageTruncated ==
    Returned("process_incidents") =>
        \A k \in DOMAIN call[1].out[1].updates :
            LET u == call[1].out[1].updates[k]
                incident == SourceOf(call[1].arg, u)
            IN /\ Len(u.message) <= MESSAGE_LIMIT
               /\ HasBody(incident) =>
                     LET body == incident.incident_updates[1].body
                     IN /\ Len(u.message) = (IF Len(body) <= MESSAGE_LIMIT THEN Len(body)
                                             ELSE MESSAGE_LIMIT)
                        /\ \A i \in 1..Len(u.message) : u.message[i] = body[i]
\* a body of MaxBody characters was cut to MESSAGE_LIMIT characters
C16_Witness ==
    /\ Returned("process_incidents")
    /\ \E k \in DOMAIN call[1].out[1].updates :
          /\ Len(SourceOf(call[1].arg, call[1].out[1].updates[k]).incident_updates[1].body) = MaxBody
          /\ Len(call[1].out[1].updates[k].message) = MESSAGE_LIMIT

RECURSIVE Notified(_, _)
\* the components of a payload that get a record, by the rule of the spec's section
\* 4.4: the status is not operational and differs from the status stored for the
\* identifier when the component is reached
Notified(m, p) ==
    IF p = <<>> THEN <<>>
    ELSE LET c == Head(p)
             differs == c.id \notin DOMAIN m \/ m[c.id] # c.status
         IN (IF c.status # S_operational /\ differs THEN <<c>> ELSE <<>>)
            \o Notified(TrackedAfter(m, <<c>>), Tail(p))

\* C17 (CallSpec): process_components makes a record for a component exactly when its
\* status is not operational and differs from the status stored for its identifier (no
\* entry counts as different); afterwards the mapping holds the status when it is not
\* operational and no entry when it is.  A status that stays abnormal gives no second
\* record, a change from one abnormal status to another gives exactly one.
C17_RecordIffChanged ==
    Returned("process_components") =>
        LET m == call[1].before
            p == call[1].arg
            out == call[1].out[1]
            expected == Notified(m, p)
        IN /\ Len(out.updates) = Len(expected)
           /\ \A i \in DOMAIN out.updates :
                 /\ out.updates[i].product = S_ProductPrefix \o expected[i].name
                 /\ out.updates[i].message = S_ChangedTo \o str_replace(expected[i].status, "_", " ")
           /\ out.seen_component_states = TrackedAfter(m, p)
           /\ \A id \in DOMAIN m, st \in AbnormalStatuses :
                 p = <<ComponentOf(id, st)>> =>
                     Len(out.updates) = (IF m[id] = st THEN 0 ELSE 1)
\* the stored status was abnormal, the payload brought another abnormal status: one record
C17_Witness ==
    /\ Returned("process_components")
    /\ call[1].before = [id \in {"c1"} |-> S_degraded_performance]
    /\ call[1].arg = <<ComponentOf("c1", S_major_outage)>>
    /\ Len(call[1].out[1].updates) = 1
    /\ call[1].out[1].seen_component_states["c1"] = S_major_outage

UniqueIds(p) == \A i, j \in DOMAIN p : p[i].id = p[j].id => i = j

\* C20 (CallSpec): after process_components returned for a payload without repeated
\* identifiers, the mapping has, for the identifiers of the payload, exactly the
\* components whose status is not operational, with that status; the entries of all
\* other identifiers are as before (a component missing from the payload keeps its entry).
C20_MappingAfterPayload ==
    (Returned("process_components") /\ UniqueIds(call[1].arg)) =>
        LET m == call[1].before
            p == call[1].arg
            after == call[1].out[1].seen_component_states
        IN /\ \A i \in DOMAIN p :
                 IF p[i].status = S_operational
                 THEN p[i].id \notin DOMAIN after
                 ELSE p[i].id \in DOMAIN after /\ after[p[i].id] = p[i].status
           /\ \A id \in (DOMAIN m \cup DOMAIN after) \ IdsOf(p) :
                 id \in DOMAIN m /\ id \in DOMAIN after /\ after[id] = m[id]
\* the payload does not list a tracked component, and its entry is still there
C20_Witness ==
    /\ Returned("process_components")
    /\ call[1].arg = <<ComponentOf("c1", S_major_outage)>>
    /\ call[1].before = [id \in {"c2"} |-> S_degraded_performance]
    /\ call[1].out[1].seen_component_states =
          [id \in ComponentIds |-> IF id = "c1" THEN S_major_outage ELSE S_degraded_performance]

\* the fingerprint of the summary documents that have a given content, in whatever
\* order their keys come
FingerprintOf(content) ==
    _hash_content(CHOOSE d \in SummaryDocs : d # <<>> /\ Range(d) = content)
SummarySucceeded == results[SUMMARY] \in {"same", "changed"}

\* C18 (Spec): in a cycle whose summary fetch gives a non-empty document, the detailed
\* fetches are made exactly when no fingerprint is stored or the fingerprint of the
\* summary differs from the stored one; from the gate to the end of the cycle the
\* stored fingerprint is the fingerprint of that cycle's summary.
C18_GateIff ==
    /\ [][(pc = "check" /\ pc' \in {"incidents", "print"} /\ SummarySucceeded') =>
             LET differs == \/ last_content_hash = None
                            \/ last_content_hash # Some(FingerprintOf(summaryContent'[1]))
             IN /\ differs <=> pc' = "incidents"
                /\ ~differs <=> pc' = "print"]_vars
    /\ []((SummarySucceeded /\ pc \in {"incidents", "components", "print"}) =>
             /\ last_content_hash = Some(FingerprintOf(summaryContent[1]))
             /\ (pc = "print" =>
                   (results[SUMMARY] = "changed" <=> Range(requests) = Endpoints)))
\* a second summary with another content has passed the gate and replaced the fingerprint
C18_Witness ==
    /\ pc = "print"
    /\ results[SUMMARY] = "changed"
    /\ interval # None
    /\ summaryContent = Some(Range(SummaryOf(1, 2)))
    /\ last_content_hash = Some(_hash_content(SummaryOf(1, 1)))

\* C19 (Spec): frame of a check cycle.  A cycle that ends at the summary failure or at
\* the gate changes none of the monitor's four fields; in a cycle that passes the gate a
\* failed incidents fetch leaves the membership set and the flag as they were and a
\* failed components fetch leaves the mapping as it was; the incidents block never
\* changes the mapping, the components block never the membership set or the flag, and
\* neither changes the fingerprint.
C19_Frame ==
    /\ [][(pc = "check" /\ pc' = "print") => (UNCHANGED monitorVars)]_vars
    /\ [][(pc = "incidents" /\ results'[INCIDENTS] = "failed") =>
             (UNCHANGED <<seen_incidents, active_incidents>>)]_vars
    /\ [][(pc = "components" /\ results'[COMPONENTS] = "failed") =>
             (UNCHANGED seen_component_states)]_vars
    /\ [][pc = "incidents" => (UNCHANGED <<seen_component_states, last_content_hash>>)]_vars
    /\ [][pc = "components" =>
             (UNCHANGED <<seen_incidents, active_incidents, last_content_hash>>)]_vars
    /\ [][(pc \in {"print", "sleep", "done", "stopped"}) => (UNCHANGED monitorVars)]_vars
\* the incidents fetch failed while the flag was set and identifiers were known
C19_Witness ==
    /\ pc = "components"
    /\ results[INCIDENTS] = "failed"
    /\ active_incidents
    /\ seen_incidents # {}
    /\ seen_component_states # EmptyDict

====
